---- MODULE Spec2Model ----
(***************************************************************************)
(* A model of the mcp-locust tool server (src/mcp/server.py): script       *)
(* discovery under the workspace root, TCP port probing, and the registry  *)
(* of background runner processes with its stop and list tools.            *)
(*                                                                         *)
(* Paths are sequences of segments, a segment is a sequence of one-letter  *)
(* strings; an absolute path lists its segments from "/".  The platform    *)
(* modelled is POSIX (signals, case-sensitive glob matching), without      *)
(* symbolic links.                                                         *)
(***************************************************************************)
EXTENDS Integers, Sequences, FiniteSets, TLC

VARIABLES
  fs,        \* the entries (files, directories) that exist under WORKDIR
  text,      \* what the files written by har.to_locust hold: path -> text
  registry,  \* _PROCESS_REGISTRY: pid -> metadata of a background runner
  procs,     \* the operating system's process table: pid -> process or NoProc
  call,      \* the tool call being served: its name and arguments
  ret        \* what that call returned (or the exception it raised)

vars == <<fs, text, registry, procs, call, ret>>

(***************************************************************************)
(* Text: str.lower(), the "in" test, Path.suffix, fnmatch and str order.   *)
(***************************************************************************)

\* ord(c) of the letters the model's names are written with
Ord ==
  (" " :> 32) @@ ("." :> 46) @@ ("L" :> 76) @@ ("P" :> 80) @@ ("Y" :> 89) @@ ("_" :> 95) @@
  ("a" :> 97) @@ ("b" :> 98) @@ ("c" :> 99) @@ ("e" :> 101) @@ ("f" :> 102) @@
  ("i" :> 105) @@ ("l" :> 108) @@ ("n" :> 110) @@ ("o" :> 111) @@
  ("p" :> 112) @@ ("s" :> 115) @@ ("t" :> 116) @@ ("u" :> 117) @@
  ("w" :> 119) @@ ("y" :> 121)

\* str.lower() on one letter: the upper-case letters move by 32
LowerChar(c) ==
  IF Ord[c] >= 65 /\ Ord[c] <= 90
    THEN CHOOSE d \in DOMAIN Ord : Ord[d] = Ord[c] + 32
    ELSE c

\* str.lower()
Lower(s) == [i \in 1..Len(s) |-> LowerChar(s[i])]

\* sub in s
Contains(s, sub) ==
  \E i \in 1..(Len(s) - Len(sub) + 1) : SubSeq(s, i, i + Len(sub) - 1) = sub

\* s.endswith(t)
EndsWith(s, t) ==
  Len(s) >= Len(t) /\ SubSeq(s, Len(s) - Len(t) + 1, Len(s)) = t

\* a < b on str: by code point, a proper prefix first
RECURSIVE StrLess(_, _)
StrLess(a, b) ==
  IF b = <<>> THEN FALSE
  ELSE IF a = <<>> THEN TRUE
  ELSE IF Ord[Head(a)] # Ord[Head(b)] THEN Ord[Head(a)] < Ord[Head(b)]
  ELSE StrLess(Tail(a), Tail(b))

Marker == <<"l", "o", "c", "u", "s", "t", "f", "i", "l", "e">>
PyExt == <<".", "p", "y">>
DotDot == <<".", ".">>

\* PurePath.suffix of a file name: from the last dot, unless the dot is the
\* first or the last letter
Suffix(name) ==
  LET dots == {i \in 1..Len(name) : name[i] = "."}
  IN IF dots = {} THEN <<>>
     ELSE LET i == CHOOSE k \in dots : \A j \in dots : j <= k
          IN IF i > 1 /\ i < Len(name) THEN SubSeq(name, i, Len(name)) ELSE <<>>

\* fnmatch of the pattern "*locustfile*.py" (case-sensitive on POSIX)
GlobMatch(name) ==
  /\ EndsWith(name, PyExt)
  /\ \E i \in 1..(Len(name) - Len(Marker) - Len(PyExt) + 1) :
       SubSeq(name, i, i + Len(Marker) - 1) = Marker

(***************************************************************************)
(* Paths and the file system.                                              *)
(***************************************************************************)

Front(s) == SubSeq(s, 1, Len(s) - 1)
Last(s) == s[Len(s)]

\* the names used
nLocust == Marker \o PyExt
nALocust == <<"a", "_">> \o Marker \o PyExt
nBLocust == <<"b", "_">> \o Marker \o PyExt
nUpLocust == <<"L">> \o Tail(Marker) \o PyExt
nNotes == <<"n", "o", "t", "e", "s">> \o PyExt
dWs == <<"w", "s">>
dA == <<"a">>
dB == <<"b">>
dC == <<"c">>
dEtc == <<"e", "t", "c">>

\* WORKDIR = Path.cwd()
WORKDIR == <<dWs>>

File(p) == [path |-> p, kind |-> "file"]
Dir(p) == [path |-> p, kind |-> "dir"]

\* what may exist under the workspace root
Universe ==
  { File(<<dWs, nLocust>>),
    File(<<dWs, nALocust>>),
    File(<<dWs, dA, nLocust>>),
    File(<<dWs, dB, nLocust>>),
    File(<<dWs, dA, dC, nALocust>>),
    File(<<dWs, dB, nUpLocust>>),
    Dir(<<dWs, dA, dC, nBLocust>>) }

\* what exists outside of it
Outside == { File(<<dEtc, nLocust>>), File(<<dEtc, nNotes>>) }

Entries(files) == files \cup Outside

IsPrefix(a, b) == Len(a) <= Len(b) /\ SubSeq(b, 1, Len(a)) = a

\* Path.resolve(): ".." segments are folded away (".." of "/" is "/")
RECURSIVE Resolve(_)
Resolve(p) ==
  IF p = <<>> THEN <<>>
  ELSE LET q == Resolve(Front(p))
       IN IF Last(p) = DotDot
            THEN (IF q = <<>> THEN <<>> ELSE Front(q))
            ELSE Append(q, Last(p))

IsDirAt(files, p) ==
  \/ p = <<>>
  \/ p = WORKDIR
  \/ \E e \in Entries(files) :
       \/ e.path = p /\ e.kind = "dir"
       \/ Len(e.path) > Len(p) /\ IsPrefix(p, e.path)

\* the operating system's lookup of a path: every directory named on the
\* way has to exist
Reaches(files, p) ==
  \A i \in 1..(Len(p) - 1) : IsDirAt(files, Resolve(SubSeq(p, 1, i)))

\* Path.is_file()
IsFile(files, p) ==
  /\ p # <<>>
  /\ Reaches(files, p)
  /\ File(Resolve(p)) \in Entries(files)

\* Path.exists()
Exists(files, p) ==
  /\ Reaches(files, p)
  /\ \/ IsDirAt(files, Resolve(p))
     \/ File(Resolve(p)) \in Entries(files)

\* Path(s) for a str argument, and WORKDIR / p
NoPath == [abs |-> FALSE, parts |-> <<>>]
Rel(parts) == [abs |-> FALSE, parts |-> parts]
Abs(parts) == [abs |-> TRUE, parts |-> parts]

\* the value of str(path) for a result that holds no path: ""
EmptyStr == <<>>

_is_locustfile(files, p) ==
  /\ IsFile(files, p)
  /\ Lower(Suffix(Last(p))) = PyExt
  /\ Contains(Lower(Last(p)), Marker)

\* the containment test left out
_under_anywhere(base, p) == TRUE

_under(base, p) == IsPrefix(Resolve(base), Resolve(p))

(***************************************************************************)
(* Discovery: Path.rglob, sorted, and the resolver.                        *)
(***************************************************************************)

\* the orders a set can be enumerated in
Perms(S) ==
  {s \in [1..Cardinality(S) -> S] : \A i, j \in DOMAIN s : i # j => s[i] # s[j]}

\* the directories directly in directory d
ChildDirs(files, d) ==
  { SubSeq(e.path, 1, Len(d) + 1) :
      e \in { x \in files :
                /\ IsPrefix(d, x.path)
                /\ \/ Len(x.path) > Len(d) + 1
                   \/ Len(x.path) = Len(d) + 1 /\ x.kind = "dir" } }

\* the entries directly in directory d that the pattern matches
Matches(files, d) ==
  { e.path : e \in { x \in files : /\ Len(x.path) = Len(d) + 1
                                    /\ IsPrefix(d, x.path)
                                    /\ GlobMatch(Last(x.path)) } }

RECURSIVE Concat(_, _)
Concat(order, f) ==
  IF order = <<>> THEN <<>> ELSE f[Head(order)] \o Concat(Tail(order), f)

\* workdir.rglob("*locustfile*.py"): a directory's own matches in the order
\* the directory lists them, then each sub-directory's walk, the
\* sub-directories in the order the directory lists them
RECURSIVE RglobOrders(_, _)
RglobOrders(files, d) ==
  LET subs == ChildDirs(files, d)
      walks == [s \in subs |-> RglobOrders(files, s)]
      picks == {f \in [subs -> UNION {walks[s] : s \in subs}] :
                  \A s \in subs : f[s] \in walks[s]}
  IN { own \o Concat(order, f) :
         own \in Perms(Matches(files, d)), order \in Perms(subs), f \in picks }

\* [p for p in scan if _is_locustfile(p)]
RECURSIVE Candidates(_, _)
Candidates(files, scan) ==
  IF scan = <<>> THEN <<>>
  ELSE IF _is_locustfile(files, Head(scan))
    THEN <<Head(scan)>> \o Candidates(files, Tail(scan))
    ELSE Candidates(files, Tail(scan))

\* depth(p) = len(p.relative_to(workdir).parts)
depth(workdir, p) == Len(p) - Len(workdir)

\* key(a) <= key(b) for the key (depth(p), p.name.lower())
KeyLeq(workdir, a, b) ==
  \/ depth(workdir, a) < depth(workdir, b)
  \/ /\ depth(workdir, a) = depth(workdir, b)
     /\ ~StrLess(Lower(Last(b)), Lower(Last(a)))

\* one step of a stable sort: x goes behind every element whose key is not
\* greater than its own
RECURSIVE InsertByKey(_, _, _)
InsertByKey(workdir, x, s) ==
  IF s = <<>> THEN <<x>>
  ELSE IF KeyLeq(workdir, Head(s), x)
    THEN <<Head(s)>> \o InsertByKey(workdir, x, Tail(s))
    ELSE <<x>> \o s

\* sorted(files, key=...): stable, equal keys keep the order of the input
RECURSIVE Sorted(_, _)
Sorted(workdir, s) ==
  IF s = <<>> THEN <<>>
  ELSE InsertByKey(workdir, Last(s), Sorted(workdir, Front(s)))

_find_all_locustfiles(files, scan) == Sorted(WORKDIR, Candidates(files, scan))

\* next((p for p in scan if _is_locustfile(p)), None); NoPath stands for None
_find_first_locustfile(files, scan) ==
  LET c == Candidates(files, scan)
  IN IF c = <<>> THEN NoPath ELSE Abs(Head(c))

Raise(e) == [ok |-> FALSE, error |-> e]
Return(v) == [ok |-> TRUE, value |-> v]

\* Path(preferred), made absolute with (WORKDIR / p).resolve()
Absolute(pp) == IF pp.abs THEN pp.parts ELSE Resolve(WORKDIR \o pp.parts)

_resolve_locustfile(files, scan, preferred) ==
  LET p == Absolute(preferred)
      found == _find_first_locustfile(files, scan)
  IN IF preferred # NoPath /\ _under(WORKDIR, p) /\ _is_locustfile(files, p)
       THEN Return(p)
     ELSE IF found = NoPath
       THEN Raise("FileNotFoundError")
     ELSE Return(found.parts)

\* locust.find
locust_find(files, scan, preferred_path) ==
  LET all_matches == _find_all_locustfiles(files, scan)
      r == _resolve_locustfile(files, scan, preferred_path)
  IN [file |-> IF all_matches # <<>> /\ r.ok THEN r.value ELSE EmptyStr,
      all |-> all_matches]

_ensure_file(files, scan, path) ==
  LET r == _resolve_locustfile(files, scan, NoPath)
      p == IF path # NoPath THEN Absolute(path) ELSE r.value
  IN IF path = NoPath /\ ~r.ok THEN r
     ELSE IF ~Exists(files, p) THEN Raise("FileNotFoundError")
     ELSE Return(p)

Idle == [op |-> "none"]

(***************************************************************************)
(* Ports, processes and the registry.                                      *)
(***************************************************************************)

MaxPid == 2
MaxTries == 3

Pids == 1..MaxPid

\* _free_tcp_port(start=8089, max_tries=50)
BasePort == 8089
DefaultTries == 50

\* web_port=None (any value that is not an int above 0 is treated alike)
NoPort == 0
\* host=None
NoHost == ""
SomeHost == "http://sut"

NoProc == [kind |-> "none"]
\* a process started by locust.run_ui: the runner, which binds its web port
\* some time after it was spawned
Runner(port, listening) ==
  [kind |-> "runner", port |-> port, listening |-> listening]
\* any other process of the machine (one that listens on no port looked at)
Other == [kind |-> "other", port |-> NoPort, listening |-> FALSE]

\* the ports some process listens on: bind() fails on exactly these
Busy(table) ==
  { table[pid].port :
      pid \in {q \in DOMAIN table : table[q].kind # "none" /\ table[q].listening} }

\* the loop giving up after the first port that cannot be bound
ProbeOnce(port, tries, busy) ==
  IF tries = 0 \/ port \in busy THEN Raise("RuntimeError") ELSE Return(port)

\* the loop of _free_tcp_port: bind, return the port, or go on with the next
RECURSIVE ProbeFrom(_, _, _)
ProbeFrom(port, tries, busy) ==
  IF tries = 0 THEN Raise("RuntimeError")
  ELSE IF port \notin busy THEN Return(port)
  ELSE ProbeFrom(port + 1, tries - 1, busy)

_free_tcp_port(start, max_tries, busy) == ProbeFrom(start, max_tries, busy)

\* os.kill(pid, sig) raises when there is no such process
KillOk(table, pid) == pid \in DOMAIN table /\ table[pid].kind # "none"

\* the registry after _PROCESS_REGISTRY.clear()
PopAll(reg, pid) == << >>

\* the registry after _PROCESS_REGISTRY.pop(pid, None)
Pop(reg, pid) == [q \in DOMAIN reg \ {pid} |-> reg[q]]

\* _record_process: _PROCESS_REGISTRY[pid] = info
_record_process(reg, pid, info) ==
  [q \in DOMAIN reg \cup {pid} |-> IF q = pid THEN info ELSE reg[q]]

Url(port) == <<"http://localhost:", port>>

\* the argument vector of locust.run_ui (" ".join(cmd) keeps it, word by word)
UiCommand(lf, port, host) ==
  <<"python", "-m", "locust", "-f", lf, "--web-port", port>>
    \o (IF host # NoHost THEN <<"--host", host>> ELSE <<>>)

\* the caller's port ignored: always the one _free_tcp_port finds
UiPortProbed(web_port, busy) == _free_tcp_port(BasePort, DefaultTries, busy)

\* port = web_port if isinstance(web_port, int) and web_port > 0
\*        else _free_tcp_port(8089)
UiPort(web_port, busy) ==
  IF web_port > 0 THEN Return(web_port)
  ELSE _free_tcp_port(BasePort, DefaultTries, busy)

\* locust.run_ui up to the spawn: the script, then the port; the first of the
\* two to raise ends the call
UiPlan(files, scan, path, web_port, host, busy) ==
  LET f == _ensure_file(files, scan, path)
      port == UiPort(web_port, busy)
  IN IF ~f.ok THEN f
     ELSE IF ~port.ok THEN port
     ELSE Return([locustfile |-> Resolve(f.value), port |-> port.value,
                  command |-> UiCommand(Resolve(f.value), port.value, host)])

\* locust.run_ui: the script, the port, then the spawn; the operating system
\* picks the new process's pid among the free ones, and fork fails when there
\* is none.  When workflow.har_to_ui makes the call, generated is what it has
\* generated, and the dict returned goes into its own result next to it
NotGenerated == [path |-> EmptyStr]

locust_run_ui(files, path, web_port, host, generated) ==
  \E scan \in RglobOrders(files, WORKDIR) :
  \E plan \in {UiPlan(files, scan, path, web_port, host, Busy(procs))} :
    LET free == {pid \in Pids : procs[pid] = NoProc}
    IN IF ~plan.ok
         THEN /\ ret' = plan
              /\ UNCHANGED <<registry, procs>>
       ELSE IF free = {}
         THEN /\ ret' = Raise("OSError")
              /\ UNCHANGED <<registry, procs>>
       ELSE \E pid \in free :
              /\ procs' = [procs EXCEPT ![pid] = Runner(plan.value.port, FALSE)]
              /\ registry' = _record_process(registry, pid,
                               [mode |-> "ui", url |-> Url(plan.value.port),
                                command |-> plan.value.command,
                                locustfile |-> plan.value.locustfile])
              /\ ret' =
                   LET run == [pid |-> pid, url |-> Url(plan.value.port),
                               command |-> plan.value.command]
                   IN IF generated = NotGenerated
                        THEN Return(run)
                        ELSE Return([generated |-> generated, run |-> run])

\* the tool locust.run_ui, its arguments drawn from the given sets
RunUiOn(paths, web_ports, hosts) ==
  \E path \in paths : \E web_port \in web_ports : \E host \in hosts :
    /\ call' = [op |-> "run_ui", path |-> path, web_port |-> web_port,
                host |-> host]
    /\ locust_run_ui(fs, path, web_port, host, NotGenerated)
    /\ UNCHANGED <<fs, text>>

\* locust.run_ui called for the workspace's script or for a file that does
\* not exist, without a port or with one of the caller's (one that
\* _free_tcp_port(8089) does not reach)
RunUi ==
  RunUiOn({NoPath, Rel(<<dA, nNotes>>)}, {NoPort, BasePort + DefaultTries},
          {NoHost})

\* users=10, spawn_rate=2, duration="1m"
DefaultUsers == 10
DefaultSpawnRate == 2
DefaultDuration == "1m"
NoFilter == ""

\* the argument vector of locust.run_headless
HeadlessCommand(lf, host, users, spawn_rate, duration, tags, tasks) ==
  <<"python", "-m", "locust", "-f", lf, "--headless",
    "-u", users, "-r", spawn_rate, "-t", duration>>
    \o (IF host # NoHost THEN <<"--host", host>> ELSE <<>>)
    \o (IF tags # NoFilter THEN <<"--tags", tags>> ELSE <<>>)
    \o (IF tasks # NoFilter THEN <<"--tasks", tasks>> ELSE <<>>)

\* the runner's exit code not looked at (subprocess.run without check=True)
locust_run_headless_unchecked(files, scan, path, host, tags, tasks, exit) ==
  LET f == _ensure_file(files, scan, path)
  IN IF ~f.ok THEN f
     ELSE Return([ok |-> TRUE,
                  command |-> HeadlessCommand(Resolve(f.value), host, DefaultUsers,
                                DefaultSpawnRate, DefaultDuration, tags, tasks),
                  stdout |-> <<"stdout", exit>>,
                  stderr |-> <<"stderr", exit>>])

\* locust.run_headless: the script, then the runner, waited for; exit is the
\* runner's exit code
locust_run_headless(files, scan, path, host, tags, tasks, exit) ==
  LET f == _ensure_file(files, scan, path)
  IN IF ~f.ok THEN f
     ELSE Return([ok |-> exit = 0,
                  command |-> HeadlessCommand(Resolve(f.value), host, DefaultUsers,
                                DefaultSpawnRate, DefaultDuration, tags, tasks),
                  stdout |-> <<"stdout", exit>>,
                  stderr |-> <<"stderr", exit>>])

\* the tool locust.run_headless
RunHeadlessOn(paths, hosts, filters) ==
  \E scan \in RglobOrders(fs, WORKDIR) :
  \E path \in paths : \E host \in hosts : \E tags \in filters :
  \E tasks \in filters : \E exit \in {0, 1} :
    /\ call' = [op |-> "run_headless", path |-> path, host |-> host,
                tags |-> tags, tasks |-> tasks, exit |-> exit]
    /\ ret' = locust_run_headless(fs, scan, path, host, tags, tasks, exit)
    /\ UNCHANGED <<fs, text, registry, procs>>

\* locust.stop, given whether os.kill(pid, SIGINT) and os.kill(pid, SIGTERM)
\* go through: which signals are sent, the registry left, and "stopped"
locust_stop(reg, pid, int_ok, term_ok) ==
  IF int_ok
    THEN [sent |-> <<"SIGINT">>, registry |-> Pop(reg, pid), stopped |-> TRUE]
  ELSE IF term_ok
    THEN [sent |-> <<"SIGINT", "SIGTERM">>, registry |-> Pop(reg, pid),
          stopped |-> TRUE]
  ELSE [sent |-> <<"SIGINT", "SIGTERM">>, registry |-> reg, stopped |-> FALSE]

\* the tool locust.stop; a signal reaches the process, which ends when it
\* gets to (ProcExit)
Stop ==
  \E pid \in Pids :
    LET r == locust_stop(registry, pid, KillOk(procs, pid), KillOk(procs, pid))
    IN /\ call' = [op |-> "stop", pid |-> pid]
       /\ ret' = [stopped |-> r.stopped, sent |-> r.sent]
       /\ registry' = r.registry
       /\ UNCHANGED <<fs, text, procs>>

\* the list with the probe's outcome lost: every item alive
PsProcessesAllAlive(reg, table) ==
  { [pid |-> pid, alive |-> TRUE, meta |-> reg[pid]] : pid \in DOMAIN reg }

\* locust.ps: the list it returns, one item per entry of the registry, with
\* the outcome of the probe os.kill(pid, 0)
PsProcesses(reg, table) ==
  { [pid |-> pid, alive |-> KillOk(table, pid), meta |-> reg[pid]] :
      pid \in DOMAIN reg }

\* the registry left as it was: nothing pruned
PsRegistryKept(reg, table) == reg

\* locust.ps: the registry it leaves, the entries probed dead popped
PsRegistry(reg, table) ==
  [pid \in {q \in DOMAIN reg : KillOk(table, q)} |-> reg[pid]]

\* the tool locust.ps
Ps ==
  /\ call' = [op |-> "ps"]
  /\ ret' = [processes |-> PsProcesses(registry, procs)]
  /\ registry' = PsRegistry(registry, procs)
  /\ UNCHANGED <<fs, text, procs>>

\* a process ends: on a signal, or by itself
ProcExit ==
  \E pid \in Pids :
    /\ procs[pid] # NoProc
    /\ procs' = [procs EXCEPT ![pid] = NoProc]
    /\ call' = Idle
    /\ ret' = Idle
    /\ UNCHANGED <<fs, text, registry>>

\* some other program starts a process
OtherSpawn ==
  \E pid \in Pids :
    /\ procs[pid] = NoProc
    /\ procs' = [procs EXCEPT ![pid] = Other]
    /\ call' = Idle
    /\ ret' = Idle
    /\ UNCHANGED <<fs, text, registry>>

\* a runner gets to bind its web port: it listens from then on, or finds the
\* port taken and exits
RunnerBind ==
  \E pid \in Pids :
    /\ procs[pid].kind = "runner"
    /\ ~procs[pid].listening
    /\ procs' = [procs EXCEPT ![pid] =
                   IF procs[pid].port \in Busy(procs)
                     THEN NoProc
                     ELSE Runner(procs[pid].port, TRUE)]
    /\ call' = Idle
    /\ ret' = Idle
    /\ UNCHANGED <<fs, text, registry>>

\* the workspace of the runs below
RunFs == { File(<<dWs, dA, nLocust>>) }

Init ==
  /\ fs = RunFs
  /\ text = << >>
  /\ registry = << >>
  /\ procs = [pid \in Pids |-> NoProc]
  /\ call = Idle
  /\ ret = Idle

Next == RunUi \/ Stop \/ Ps \/ ProcExit \/ OtherSpawn \/ RunnerBind

Spec == Init /\ [][Next]_vars

(***************************************************************************)
(* _free_tcp_port on its own: any start, any count, any set of busy ports. *)
(***************************************************************************)

Allocate ==
  \E start \in {BasePort, BasePort + 1} :
  \E max_tries \in 0..MaxTries :
  \E busy \in SUBSET (BasePort..(BasePort + MaxTries + 1)) :
    /\ call' = [op |-> "allocate", start |-> start, max_tries |-> max_tries,
                busy |-> busy]
    /\ ret' = _free_tcp_port(start, max_tries, busy)
    /\ UNCHANGED <<fs, text, registry, procs>>

NextAlloc == Allocate

SpecAlloc == Init /\ [][NextAlloc]_vars

(***************************************************************************)
(* Discovery on its own: any workspace content, any preferred path.        *)
(***************************************************************************)

\* the path arguments a caller may send
PathArgs ==
  { NoPath,
    Rel(<<dA, nLocust>>),
    Rel(<<dB, nUpLocust>>),
    Rel(<<dA, nNotes>>),
    Rel(<<DotDot, dEtc, nLocust>>),
    Abs(<<dEtc, nLocust>>),
    Abs(<<dWs, dA, DotDot, nLocust>>),
    Abs(<<dWs, dB, nLocust>>) }

\* the tool locust.find, served with the file system enumerating in some order
Find ==
  \E scan \in RglobOrders(fs, WORKDIR) : \E pp \in PathArgs :
    /\ call' = [op |-> "find", path |-> pp]
    /\ ret' = locust_find(fs, scan, pp)
    /\ UNCHANGED <<fs, text, registry, procs>>

\* the files under the workspace root change between calls
Touch ==
  \E e \in Universe :
    /\ fs' = IF e \in fs THEN fs \ {e} ELSE fs \cup {e}
    /\ call' = Idle
    /\ ret' = Idle
    /\ UNCHANGED <<text, registry, procs>>

InitFind ==
  /\ fs \in SUBSET Universe
  /\ text = << >>
  /\ registry = << >>
  /\ procs = [pid \in Pids |-> NoProc]
  /\ call = Idle
  /\ ret = Idle

\* locust.run_headless with every kind of script path
RunHeadless ==
  RunHeadlessOn({NoPath, Rel(<<dA, nLocust>>), Rel(<<DotDot, dEtc, nLocust>>),
                 Abs(<<dEtc, nNotes>>)}, {NoHost, SomeHost}, {NoFilter})

NextFind == Find \/ RunHeadless \/ Touch

SpecFind == InitFind /\ [][NextFind]_vars

(***************************************************************************)
(* Generated scripts: the generator's output, the file written, and the    *)
(* workflow that launches it.  A text is a sequence of symbols (a letter,  *)
(* a line ending, or one of the words "@task", "@tag", "def").             *)
(***************************************************************************)

LF == "\n"
CR == "\r"

\* what reading in text mode does to the line endings (subprocess.run with
\* text=True, Path.read_text): "\r\n" and "\r" become "\n"
RECURSIVE Universal(_)
Universal(s) ==
  IF s = <<>> THEN <<>>
  ELSE IF Head(s) = CR
    THEN IF Len(s) > 1 /\ s[2] = LF
           THEN <<LF>> \o Universal(Tail(Tail(s)))
           ELSE <<LF>> \o Universal(Tail(s))
  ELSE <<Head(s)>> \o Universal(Tail(s))

nHar == <<"r", ".", "h", "a", "r">>
nNoHar == <<"n", "o", ".", "h", "a", "r">>
dTemplates == <<"t", "e", "m", "p", "l", "a", "t", "e", "s">>

\* _default_locustfile_path(): WORKDIR / "templates" / "locustfile.py"
_default_locustfile_path == WORKDIR \o <<dTemplates, nLocust>>

\* what har2locust writes to its standard output for the recording
GenLf == <<"@task", LF, "def", " ", "a", "(", ")", ":", LF>>
GenCrLf == <<"@task", CR, LF, "def", " ", "a", "(", ")", ":", CR, LF>>

\* the ways a run of the generator ends
GenOutcomes ==
  { [exit |-> 0, stdout |-> GenLf],
    [exit |-> 0, stdout |-> GenCrLf],
    [exit |-> 1, stdout |-> <<>>] }

GeneratorFailed == "RuntimeError: har2locust failed"

\* the generator's exit code not looked at (subprocess.run without check=True)
_run_har2locust_unchecked(gen) == Return(Universal(gen.stdout))

\* _run_har2locust: p.stdout, or RuntimeError("har2locust failed: ...") for
\* a non-zero exit code
_run_har2locust(gen) ==
  IF gen.exit = 0
    THEN Return(Universal(gen.stdout))
    ELSE Raise(GeneratorFailed)

\* out.parent.mkdir(parents=True, exist_ok=True): the error it raises, if any
MkdirError(files, dir) ==
  IF File(dir) \in Entries(files) THEN "FileExistsError"
  ELSE IF \E i \in 1..(Len(dir) - 1) : File(SubSeq(dir, 1, i)) \in Entries(files)
    THEN "NotADirectoryError"
  ELSE "none"

\* a script of the workspace, as it is on disk
ScriptBytes ==
  <<"@tag", "(", "'", "a", "'", ")", LF, "@task", LF,
    "def", " ", "b", "(", ")", ":", LF>>

\* the bytes of the file at p: what was written to it, or, for a file no
\* call has written, the script
ReadBytes(txt, p) == IF p \in DOMAIN txt THEN txt[p] ELSE ScriptBytes

\* Path.read_text(): text mode again
ReadText(txt, p) == Universal(ReadBytes(txt, Resolve(p)))

\* the file opened for writing and left empty
WriteTextTruncated(files, txt, out, code) ==
  [fs |-> files \cup {File(out)},
   text |-> [q \in DOMAIN txt \cup {out} |-> IF q = out THEN <<>> ELSE txt[q]]]

\* the file system left by out.write_text(code, encoding="utf-8")
WriteText(files, txt, out, code) ==
  [fs |-> files \cup {File(out)},
   text |-> [q \in DOMAIN txt \cup {out} |-> IF q = out THEN code ELSE txt[q]]]

\* har.to_locust: what it returns or raises, and the file system it leaves
har_to_locust(files, txt, har_path, write_to, gen) ==
  LET har == Absolute(har_path)
      code == _run_har2locust(gen)
      out == Absolute(write_to)
      kept == [fs |-> files, text |-> txt]
  IN IF ~Exists(files, har)
       THEN [ret |-> Raise("ValueError")] @@ kept
     ELSE IF ~code.ok
       THEN [ret |-> code] @@ kept
     ELSE IF write_to = NoPath
       THEN [ret |-> Return([path |-> EmptyStr, code |-> code.value])] @@ kept
     ELSE IF MkdirError(files, Front(Resolve(out))) # "none"
       THEN [ret |-> Raise(MkdirError(files, Front(Resolve(out))))] @@ kept
     ELSE IF IsDirAt(files, Resolve(out))
       THEN [ret |-> Raise("IsADirectoryError")] @@ kept
     ELSE [ret |-> Return([path |-> out, code |-> code.value])]
            @@ WriteText(files, txt, Resolve(out), code.value)

\* the tool har.to_locust, its arguments drawn from the given sets
HarToLocustOn(hars, targets) ==
  \E har_path \in hars : \E write_to \in targets : \E gen \in GenOutcomes :
  \E r \in {har_to_locust(fs, text, har_path, write_to, gen)} :
       /\ call' = [op |-> "har_to_locust", har_path |-> har_path,
                   write_to |-> write_to, gen |-> gen]
       /\ ret' = r.ret
       /\ fs' = r.fs
       /\ text' = r.text
       /\ UNCHANGED <<registry, procs>>

\* the tool workflow.har_to_ui: har.to_locust with a destination, then
\* locust.run_ui for the path written
WorkflowOn(hars, targets, web_ports, hosts) ==
  \E har_path \in hars : \E write_to \in targets : \E gen \in GenOutcomes :
  \E web_port \in web_ports : \E host \in hosts :
  \E r \in {har_to_locust(fs, text, har_path,
                           IF write_to # NoPath
                             THEN write_to
                             ELSE Abs(_default_locustfile_path),
                           gen)} :
       /\ call' = [op |-> "workflow", har_path |-> har_path,
                   write_to |-> write_to, gen |-> gen,
                   web_port |-> web_port, host |-> host]
       /\ fs' = r.fs
       /\ text' = r.text
       /\ IF ~r.ret.ok
            THEN /\ ret' = r.ret
                 /\ UNCHANGED <<registry, procs>>
            ELSE locust_run_ui(r.fs, Abs(r.ret.value.path), web_port, host,
                               r.ret.value)

(***************************************************************************)
(* Parsing a script for its tasks and tags: the two regular expressions of *)
(* _parse_tasks_and_tags, matched against a text symbol by symbol.         *)
(***************************************************************************)

\* \s
Ws == {" ", LF, CR}
\* [A-Za-z_] and \w
IdentStart == {"a", "b", "c", "e"}
WordChars == IdentStart \cup {"3"}
\* ['"]
Quotes == {"'", "\""}

\* the first position from i on that the class does not match (Len(s) + 1
\* when there is none): where a greedy cls* that starts at i ends
RECURSIVE Skip(_, _, _)
Skip(s, i, cls) ==
  IF i > Len(s) \/ s[i] \notin cls THEN i ELSE Skip(s, i + 1, cls)

\* the first position from i on that holds one of the symbols, 0 for none
RECURSIVE Find1(_, _, _)
Find1(s, i, symbols) ==
  IF i > Len(s) THEN 0
  ELSE IF s[i] \in symbols THEN i
  ELSE Find1(s, i + 1, symbols)

NoMatch == [ok |-> FALSE]

\* task_rx matched at position i:
\*   @task(?:\s*\([^)]*\))?\s*\r?\n\s*def\s+([A-Za-z_]\w*)\s*\(
\* The white space between the decorator and "def" must hold a "\n"; the
\* group and the end of the match
TaskAt(s, i) ==
  LET open == Skip(s, i + 1, Ws)
      grouped == open <= Len(s) /\ s[open] = "("
      close == IF grouped THEN Find1(s, open + 1, {")"}) ELSE 0
      gap == IF grouped THEN close + 1 ELSE i + 1
      kw == Skip(s, gap, Ws)
      sp == kw + 1
      id == Skip(s, sp, Ws)
      idEnd == Skip(s, id, WordChars)
      paren == Skip(s, idEnd, Ws)
  IN IF /\ s[i] = "@task"
        /\ grouped => close # 0
        /\ \E k \in gap..(kw - 1) : s[k] = LF
        /\ kw <= Len(s) /\ s[kw] = "def"
        /\ id > sp
        /\ id <= Len(s) /\ s[id] \in IdentStart
        /\ paren <= Len(s) /\ s[paren] = "("
       THEN [ok |-> TRUE, group |-> SubSeq(s, id, idEnd - 1), end |-> paren + 1]
       ELSE NoMatch

\* task_rx.findall(source) from position i on
RECURSIVE FindTasks(_, _)
FindTasks(s, i) ==
  IF i > Len(s) THEN <<>>
  ELSE IF TaskAt(s, i).ok
    THEN <<TaskAt(s, i).group>> \o FindTasks(s, TaskAt(s, i).end)
  ELSE FindTasks(s, i + 1)

\* tag_line_rx matched at position i:  @tag\s*\(([^)]*)\)
TagAt(s, i) ==
  LET open == Skip(s, i + 1, Ws)
      close == Find1(s, open + 1, {")"})
  IN IF /\ s[i] = "@tag"
        /\ open <= Len(s) /\ s[open] = "("
        /\ close # 0
       THEN [ok |-> TRUE, group |-> SubSeq(s, open + 1, close - 1),
             end |-> close + 1]
       ELSE NoMatch

\* [m.group(1) for m in tag_line_rx.finditer(source)] from position i on
RECURSIVE FindTags(_, _)
FindTags(s, i) ==
  IF i > Len(s) THEN <<>>
  ELSE IF TagAt(s, i).ok
    THEN <<TagAt(s, i).group>> \o FindTags(s, TagAt(s, i).end)
  ELSE FindTags(s, i + 1)

\* re.findall(r"""(['"])(.*?)\1""", inner) from position j on, the second
\* group of each match: from a quote to the next quote of its kind, with no
\* "\n" between the two
RECURSIVE Literals(_, _)
Literals(inner, j) ==
  IF j > Len(inner) THEN <<>>
  ELSE LET k == Find1(inner, j + 1, {inner[j], LF})
       IN IF inner[j] \in Quotes /\ k # 0 /\ inner[k] = inner[j]
            THEN <<SubSeq(inner, j + 1, k - 1)>> \o Literals(inner, k + 1)
            ELSE Literals(inner, j + 1)

\* str.strip() left out
StripNothing(s) == s

\* str.strip()
RECURSIVE Strip(_)
Strip(s) ==
  IF s = <<>> THEN s
  ELSE IF Head(s) \in Ws THEN Strip(Tail(s))
  ELSE IF Last(s) \in Ws THEN Strip(Front(s))
  ELSE s

Range(s) == {s[i] : i \in DOMAIN s}

\* sorted(S) for a set of str
RECURSIVE SortedStrs(_)
SortedStrs(S) ==
  IF S = {} THEN <<>>
  ELSE LET m == CHOOSE x \in S : \A y \in S : ~StrLess(y, x)
       IN <<m>> \o SortedStrs(S \ {m})

_parse_tasks_and_tags(source) ==
  LET tasks == FindTasks(source, 1)
      inners == FindTags(source, 1)
      tags == { Strip(t) : t \in UNION { Range(Literals(inners[n], 1)) :
                                           n \in DOMAIN inners } } \ {<<>>}
  IN [tasks |-> SortedStrs(Range(tasks)), tags |-> SortedStrs(tags)]

\* locust.list_tasks
locust_list_tasks(files, txt, scan, path) ==
  LET f == _ensure_file(files, scan, path)
      lf == Resolve(f.value)
  IN IF ~f.ok THEN f
     ELSE IF IsDirAt(files, lf) THEN Raise("IsADirectoryError")
     ELSE Return([file |-> lf] @@ _parse_tasks_and_tags(ReadText(txt, lf)))

\* the tool locust.list_tasks, its argument drawn from the given set
ListTasksOn(paths) ==
  \E scan \in RglobOrders(fs, WORKDIR) : \E path \in paths :
    /\ call' = [op |-> "list_tasks", path |-> path]
    /\ ret' = locust_list_tasks(fs, text, scan, path)
    /\ UNCHANGED <<fs, text, registry, procs>>

(***************************************************************************)
(* _parse_tasks_and_tags on its own, for the texts made of a few lines.    *)
(***************************************************************************)

MaxLines == 4

\* a task: the decorator bare, with a weight, or on a line ended by CR LF
TaskLine(name, style) == [kind |-> "task", name |-> name, style |-> style]
\* a tag decorator with its string literals, each in the quotes given
TagLine(literals) == [kind |-> "tag", literals |-> literals]
\* a function that is not a task
DefLine(name) == [kind |-> "def", name |-> name]

Quoted(q, s) == [q |-> q, s |-> s]

Lines ==
  { TaskLine(<<"a">>, "bare"),
    TaskLine(<<"a", "b">>, "weight"),
    TaskLine(<<"c">>, "crlf"),
    TagLine(<<Quoted("'", <<"b">>), Quoted("\"", <<"a">>), Quoted("'", <<"b">>)>>),
    TagLine(<<Quoted("'", <<" ">>), Quoted("'", <<" ", "a", " ">>)>>),
    DefLine(<<"e">>) }

RECURSIVE RenderLiterals(_)
RenderLiterals(ls) ==
  IF ls = <<>> THEN <<>>
  ELSE <<Head(ls).q>> \o Head(ls).s \o <<Head(ls).q>>
         \o (IF Len(ls) > 1 THEN <<",", " ">> ELSE <<>>)
         \o RenderLiterals(Tail(ls))

DefText(name) == <<" ", "def", " ">> \o name \o <<"(", ")", ":", LF>>

\* the text of a line of a script
RenderLine(l) ==
  IF l.kind = "task"
    THEN (IF l.style = "bare" THEN <<"@task", LF>>
          ELSE IF l.style = "weight" THEN <<"@task", "(", "3", ")", LF>>
          ELSE <<"@task", CR, LF>>) \o DefText(l.name)
  ELSE IF l.kind = "tag"
    THEN <<"@tag", "(">> \o RenderLiterals(l.literals) \o <<")", LF>>
  ELSE DefText(l.name)

RECURSIVE Render(_)
Render(ls) == IF ls = <<>> THEN <<>> ELSE RenderLine(Head(ls)) \o Render(Tail(ls))

\* the scripts of up to MaxLines lines
Scripts == UNION { [1..n -> Lines] : n \in 0..MaxLines }

\* the first call a server gets: _parse_tasks_and_tags for one of the scripts
Parse ==
  \E ls \in Scripts :
    /\ call = Idle
    /\ call' = [op |-> "parse", lines |-> ls, source |-> Render(ls)]
    /\ ret' = _parse_tasks_and_tags(Render(ls))
    /\ UNCHANGED <<fs, text, registry, procs>>

NextParse == Parse

SpecParse == Init /\ [][NextParse]_vars

(***************************************************************************)
(* The whole tool surface, one call after the other, with the runners      *)
(* started in the background ending when they get to.                      *)
(***************************************************************************)

\* locust.run_ui for the generated script
RunUiGenerated == RunUiOn({Rel(<<dTemplates, nLocust>>)}, {NoPort}, {NoHost})

\* locust.run_headless for the workspace's script or for a file that does
\* not exist
RunHeadlessDefault ==
  RunHeadlessOn({NoPath, Rel(<<dA, nNotes>>)}, {NoHost}, {NoFilter})

\* har.to_locust for the recording or for one that does not exist, without a
\* destination, with one, and with one whose parent is a regular file
HarToLocust ==
  HarToLocustOn({Rel(<<nHar>>), Rel(<<nNoHar>>)},
                {NoPath, Rel(<<dTemplates, nLocust>>),
                 Rel(<<dA, nLocust, nLocust>>)})

\* workflow.har_to_ui, to the default destination or to one of the caller's
Workflow ==
  WorkflowOn({Rel(<<nHar>>), Rel(<<nNoHar>>)},
             {NoPath, Rel(<<dTemplates, nLocust>>)}, {NoPort}, {NoHost})

\* locust.find without a preferred path, or with the generated script's
FindDefault ==
  \E scan \in RglobOrders(fs, WORKDIR) :
  \E pp \in {NoPath, Rel(<<dTemplates, nLocust>>)} :
    /\ call' = [op |-> "find", path |-> pp]
    /\ ret' = locust_find(fs, scan, pp)
    /\ UNCHANGED <<fs, text, registry, procs>>

\* locust.list_tasks for the script found, or for the generated script
ListTasks == ListTasksOn({NoPath, Rel(<<dTemplates, nLocust>>)})

\* the workspace of the tools: a script and a recording
ToolsFs == { File(<<dWs, dA, nLocust>>), File(<<dWs, nHar>>) }

InitTools ==
  /\ fs = ToolsFs
  /\ text = << >>
  /\ registry = << >>
  /\ procs = [pid \in Pids |-> NoProc]
  /\ call = Idle
  /\ ret = Idle

NextTools ==
  \/ FindDefault
  \/ ListTasks
  \/ RunUiGenerated
  \/ RunHeadlessDefault
  \/ HarToLocust
  \/ Workflow
  \/ Stop
  \/ Ps
  \/ ProcExit

SpecTools == InitTools /\ [][NextTools]_vars

(***************************************************************************)
(* The registry under tool calls served on several threads: each call is   *)
(* a sequence of steps (one system call or one dict operation each), and   *)
(* the steps of different calls interleave.  Nothing in the code takes a   *)
(* lock.  Here call and ret hold, for every thread, the call it serves     *)
(* (with the position reached in it and its local variables) and the last  *)
(* result it returned.                                                     *)
(***************************************************************************)

Threads == {"t1", "t2"}

\* the process ids in use while the calls overlap
MaxConcPid == 1
ConcPids == 1..MaxConcPid

\* a thread that has served no call yet
Fresh == [op |-> "none", pc |-> "done"]

\* a thread that can take the next call
Ready(t) == call[t].pc = "done"

At(t, op, pc) == call[t].op = op /\ call[t].pc = pc

\* list(_PROCESS_REGISTRY.items()): the keys, here by ascending pid
RECURSIVE Items(_)
Items(S) ==
  IF S = {} THEN <<>>
  ELSE LET m == CHOOSE x \in S : \A y \in S : x <= y
       IN <<m>> \o Items(S \ {m})

\* locust.run_ui up to subprocess.Popen: the process exists, the entry is
\* not recorded yet
UiSpawn(t) ==
  \E scan \in RglobOrders(fs, WORKDIR) :
    LET plan == UiPlan(fs, scan, NoPath, NoPort, NoHost, Busy(procs))
        free == {pid \in ConcPids : procs[pid] = NoProc}
    IN /\ Ready(t)
       /\ plan.ok
       /\ IF free = {}
            THEN /\ call' = [call EXCEPT ![t] = [op |-> "run_ui", pc |-> "done"]]
                 /\ ret' = [ret EXCEPT ![t] = Raise("OSError")]
                 /\ UNCHANGED procs
            ELSE \E pid \in free :
                   /\ procs' = [procs EXCEPT ![pid] =
                                  Runner(plan.value.port, FALSE)]
                   /\ call' = [call EXCEPT ![t] =
                                 [op |-> "run_ui", pc |-> "record", pid |-> pid,
                                  plan |-> plan.value]]
                   /\ UNCHANGED ret
       /\ UNCHANGED <<fs, text, registry>>

\* locust.run_ui: _record_process and the return
UiRecord(t) ==
  /\ At(t, "run_ui", "record")
  /\ registry' = _record_process(registry, call[t].pid,
                   [mode |-> "ui", url |-> Url(call[t].plan.port),
                    command |-> call[t].plan.command,
                    locustfile |-> call[t].plan.locustfile])
  /\ call' = [call EXCEPT ![t].pc = "done"]
  /\ ret' = [ret EXCEPT ![t] =
               Return([pid |-> call[t].pid, url |-> Url(call[t].plan.port),
                       command |-> call[t].plan.command])]
  /\ UNCHANGED <<fs, text, procs>>

Signal(sig, ok) == [sig |-> sig, ok |-> ok]

\* SIGTERM sent whatever became of SIGINT
AfterSigintAlways(ok) == "term"

\* where locust.stop goes after os.kill(pid, SIGINT): to the pop, or, on an
\* exception, to os.kill(pid, SIGTERM)
AfterSigint(ok) == IF ok THEN "pop" ELSE "term"

\* where locust.stop goes after os.kill(pid, SIGTERM): to the pop, or, on an
\* exception, to return {"stopped": False}
AfterSigterm(ok) == IF ok THEN "pop" ELSE "done"

\* locust.stop: os.kill(pid, signal.SIGINT)
StopSigint(t) ==
  \E pid \in ConcPids :
    /\ Ready(t)
    /\ call' = [call EXCEPT ![t] =
                  [op |-> "stop", pc |-> AfterSigint(KillOk(procs, pid)),
                   pid |-> pid,
                   signals |-> <<Signal("SIGINT", KillOk(procs, pid))>>]]
    /\ UNCHANGED <<fs, text, registry, procs, ret>>

\* locust.stop: os.kill(pid, signal.SIGTERM)
StopSigterm(t) ==
  LET pid == call[t].pid
      next == AfterSigterm(KillOk(procs, pid))
  IN /\ At(t, "stop", "term")
     /\ call' = [call EXCEPT ![t].pc = next,
                             ![t].signals =
                               Append(@, Signal("SIGTERM", KillOk(procs, pid)))]
     /\ ret' = IF next = "done"
                 THEN [ret EXCEPT ![t] = [stopped |-> FALSE]]
                 ELSE ret
     /\ UNCHANGED <<fs, text, registry, procs>>

\* locust.stop: _PROCESS_REGISTRY.pop(pid, None) and return {"stopped": True}
StopPop(t) ==
  /\ At(t, "stop", "pop")
  /\ registry' = Pop(registry, call[t].pid)
  /\ call' = [call EXCEPT ![t].pc = "done"]
  /\ ret' = [ret EXCEPT ![t] = [stopped |-> TRUE]]
  /\ UNCHANGED <<fs, text, procs>>

\* locust.ps after an item is dealt with: the next item, or the return
PsNext(t, items, listed) ==
  /\ call' = [call EXCEPT ![t] =
                [op |-> "ps", pc |-> IF items = <<>> THEN "done" ELSE "probe",
                 items |-> items, listed |-> listed]]
  /\ ret' = IF items = <<>>
              THEN [ret EXCEPT ![t] = [processes |-> listed]]
              ELSE ret

\* locust.ps: list(_PROCESS_REGISTRY.items())
PsList(t) ==
  /\ Ready(t)
  /\ PsNext(t, [i \in DOMAIN Items(DOMAIN registry) |->
                  [pid |-> Items(DOMAIN registry)[i],
                   meta |-> registry[Items(DOMAIN registry)[i]]]], <<>>)
  /\ UNCHANGED <<fs, text, registry, procs>>

\* locust.ps: os.kill(pid, 0) for the next item, and procs.append
PsProbe(t) ==
  LET item == Head(call[t].items)
      alive == KillOk(procs, item.pid)
      listed == Append(call[t].listed,
                       [pid |-> item.pid, alive |-> alive, meta |-> item.meta])
  IN /\ At(t, "ps", "probe")
     /\ IF alive
          THEN PsNext(t, Tail(call[t].items), listed)
          ELSE /\ call' = [call EXCEPT ![t].pc = "pop", ![t].listed = listed]
               /\ UNCHANGED ret
     /\ UNCHANGED <<fs, text, registry, procs>>

\* locust.ps: _PROCESS_REGISTRY.pop(pid, None) for an item probed dead
PsPop(t) ==
  /\ At(t, "ps", "pop")
  /\ registry' = Pop(registry, Head(call[t].items).pid)
  /\ PsNext(t, Tail(call[t].items), call[t].listed)
  /\ UNCHANGED <<fs, text, procs>>

\* a process ends while the calls are served
ConcExit ==
  \E pid \in ConcPids :
    /\ procs[pid] # NoProc
    /\ procs' = [procs EXCEPT ![pid] = NoProc]
    /\ UNCHANGED <<fs, text, registry, call, ret>>

InitConc ==
  /\ fs = RunFs
  /\ text = << >>
  /\ registry = << >>
  /\ procs = [pid \in Pids |-> NoProc]
  /\ call = [t \in Threads |-> Fresh]
  /\ ret = [t \in Threads |-> Idle]

NextConc ==
  \/ \E t \in Threads : UiSpawn(t)
  \/ \E t \in Threads : UiRecord(t)
  \/ \E t \in Threads : StopSigint(t)
  \/ \E t \in Threads : StopSigterm(t)
  \/ \E t \in Threads : StopPop(t)
  \/ \E t \in Threads : PsList(t)
  \/ \E t \in Threads : PsProbe(t)
  \/ \E t \in Threads : PsPop(t)
  \/ ConcExit

SpecConc == InitConc /\ [][NextConc]_vars

(***************************************************************************)
(* The properties.                                                         *)
(***************************************************************************)

\* a path that lies under the workspace root once its ".." are folded away
UnderRoot(p) ==
  LET q == Resolve(p)
  IN Len(q) > Len(WORKDIR) /\ SubSeq(q, 1, Len(WORKDIR)) = WORKDIR

\* a runner that was spawned and has not bound its web port yet
Pending(pid) == procs[pid].kind = "runner" /\ ~procs[pid].listening

C2_PrunedStaysOut ==
  [][/\ call'.op = "ps" =>
          /\ \A pid \in DOMAIN registry :
               procs[pid] = NoProc => pid \notin DOMAIN registry'
          /\ \A e \in ret'.processes : e.pid \in DOMAIN registry
     /\ call'.op # "run_ui" => DOMAIN registry' \subseteq DOMAIN registry]_vars

C2_Witness ==
  /\ call.op = "ps"
  /\ \E e \in ret.processes :
       ~e.alive /\ e.pid \notin DOMAIN registry /\ procs[e.pid] = NoProc

\* C3: after locust.stop(pid) has returned, pid is not in the registry,
\* whatever became of the two signals.
C3_StopAlwaysRemoves ==
  call.op = "stop" => call.pid \notin DOMAIN registry

\* C4: locust.stop of a process id that is not in the registry reports
\* stopped = FALSE.
C4_UnregisteredStopFails ==
  [][(call'.op = "stop" /\ call'.pid \notin DOMAIN registry)
       => ~ret'.stopped]_vars

\* C5: locust.find returns no path outside the workspace root: its best path
\* is empty or under the root, and so is every path of its list.
C5_FindStaysUnderRoot ==
  call.op = "find" =>
    /\ ret.file = EmptyStr \/ UnderRoot(ret.file)
    /\ \A i \in DOMAIN ret.all : UnderRoot(ret.all[i])

C5_Witness ==
  /\ call.op = "find"
  /\ call.path \in {Rel(<<DotDot, dEtc, nLocust>>), Abs(<<dEtc, nLocust>>)}
  /\ ret.file # EmptyStr

\* C6: the script an operation hands to the runner (here locust.run_headless,
\* after "-f") is a path under the workspace root.
C6_ScriptUnderRoot ==
  (call.op = "run_headless" /\ ret.ok) => UnderRoot(ret.value.command[5])

\* C7: a port _free_tcp_port has returned to a launch is not returned to
\* another launch while the first launch's runner has not bound it yet.
C7_NoDoubleAllocation ==
  [][(call'.op = "run_ui" /\ call'.web_port = NoPort /\ ret'.ok) =>
       \A pid \in DOMAIN registry :
         Pending(pid) => registry[pid].url # ret'.value.url]_vars

\* C8: _free_tcp_port(start, max_tries) returns the lowest port of
\* start .. start + max_tries - 1 that can be bound, and raises exactly when
\* none of them can.
C8_LowestFreeInWindow ==
  call.op = "allocate" =>
    LET free == {q \in call.start..(call.start + call.max_tries - 1) :
                   q \notin call.busy}
    IN IF free = {}
         THEN ~ret.ok /\ ret.error = "RuntimeError"
         ELSE ret.ok /\ ret.value \in free /\ \A q \in free : ret.value <= q

C8_Witness ==
  /\ call.op = "allocate"
  /\ ret.ok
  /\ ret.value > call.start + 1
  /\ ret.value = call.start + call.max_tries - 1

\* the preferred path is one the resolver returns as it is
ValidPreferred(files, pp) ==
  /\ pp # NoPath
  /\ UnderRoot(Absolute(pp))
  /\ _is_locustfile(files, Absolute(pp))

\* C9: without a valid preferred path the best path of locust.find is the
\* first element of its sorted list.
C9_BestIsFirstOfAll ==
  (call.op = "find" /\ ~ValidPreferred(fs, call.path) /\ ret.all # <<>>)
    => ret.file = ret.all[1]

\* C10: the result of locust.find does not depend on the order in which the
\* file system lists the files.
C10_FindIgnoresScanOrder ==
  call.op = "find" =>
    \A scan \in RglobOrders(fs, WORKDIR) : locust_find(fs, scan, call.path) = ret

\* C11: a locust.run_ui call whose spawn succeeds adds exactly one entry to
\* the registry, under the process id of the process it spawned, and leaves
\* the other entries as they were; the entry has mode "ui", the script path
\* and the command of the call, and the URL http://localhost:<port>, where
\* <port> is the caller's port when one was given and otherwise the port
\* _free_tcp_port(8089) returns, and is the port the runner gets as
\* --web-port.  A call that fails (no script, no port, no spawn) leaves the
\* registry as it was.
C11_LaunchRegistersOneJob ==
  [][call'.op = "run_ui" =>
       IF ret'.ok
         THEN LET pid == ret'.value.pid
                  job == registry'[pid]
                  port == IF call'.web_port > 0
                            THEN call'.web_port
                            ELSE _free_tcp_port(BasePort, DefaultTries,
                                                Busy(procs)).value
              IN /\ procs[pid] = NoProc
                 /\ procs'[pid] = Runner(port, FALSE)
                 /\ DOMAIN registry' = DOMAIN registry \cup {pid}
                 /\ \A q \in DOMAIN registry \ {pid} : registry'[q] = registry[q]
                 /\ job.mode = "ui"
                 /\ job.url = Url(port)
                 /\ job.command = ret'.value.command
                 /\ IsFile(fs, job.locustfile)
                 /\ SubSeq(job.command, 4, 7) =
                      <<"-f", job.locustfile, "--web-port", port>>
         ELSE registry' = registry /\ procs' = procs]_vars

C11_Witness ==
  /\ call.op = "run_ui"
  /\ call.web_port = NoPort
  /\ ret.ok
  /\ ret.value.url = Url(BasePort + 1)
  /\ Cardinality(DOMAIN registry) = 2

\* C12: locust.run_headless leaves the registry (and the process table) as
\* it found them, whether the runner exits with zero or not, and the "ok" of
\* its result is TRUE exactly when the runner's exit code is zero.
C12_HeadlessLeavesRegistry ==
  [][call'.op = "run_headless" =>
       /\ registry' = registry
       /\ procs' = procs
       /\ ret'.ok => (ret'.value.ok <=> call'.exit = 0)]_vars

C12_Witness ==
  /\ call.op = "run_headless"
  /\ call.exit # 0
  /\ ret.ok
  /\ ~ret.value.ok
  /\ Cardinality(DOMAIN registry) = 2

\* the exceptions of the two steps of workflow.har_to_ui
ConversionErrors == {"ValueError", GeneratorFailed}
LaunchErrors == {"FileNotFoundError", "RuntimeError", "OSError"}

\* C13: workflow.har_to_ui never rolls back.  When the conversion fails (no
\* recording, or the generator exits non-zero) nothing is written and nothing
\* is launched, and the error is the conversion's.  When the conversion and
\* the write succeed and the launch fails, the file written stays on disk
\* holding the generated source, the registry and the process table are as
\* before, and the error is the launch's.
C13_NoRollback ==
  [][call'.op = "workflow" =>
       LET converted == /\ Exists(fs, Absolute(call'.har_path))
                        /\ call'.gen.exit = 0
       IN IF ~converted
            THEN /\ fs' = fs
                 /\ text' = text
                 /\ registry' = registry
                 /\ procs' = procs
                 /\ ~ret'.ok
                 /\ ret'.error \in ConversionErrors
            ELSE /\ File(_default_locustfile_path) \in fs'
                 /\ text'[_default_locustfile_path] = Universal(call'.gen.stdout)
                 /\ ~ret'.ok =>
                      /\ registry' = registry
                      /\ procs' = procs
                      /\ ret'.error \in LaunchErrors]_vars

C13_Witness ==
  /\ call.op = "workflow"
  /\ call.gen.exit = 0
  /\ ~ret.ok
  /\ ret.error = "OSError"
  /\ File(_default_locustfile_path) \in fs
  /\ text[_default_locustfile_path] = GenLf

\* the exceptions the code raises itself, with a message of its own
OwnErrors == {"FileNotFoundError", "ValueError", "RuntimeError", GeneratorFailed}

\* C14: no tool call lets a fault of the file system or of a subprocess
\* reach the caller as it is.  (The claim asks for more, a result returned
\* by every call; here even an exception counts as a structured outcome when
\* it is one the code raises itself.)
C14_NoRawFault ==
  "error" \in DOMAIN ret => ret.error \in OwnErrors

\* the entry under pid is the entry of the process that has this pid now:
\* the process is a runner which a locust.run_ui has spawned and recorded
OwnEntry(pid) ==
  /\ pid \in DOMAIN registry
  /\ procs[pid] # NoProc
  /\ ~\E t \in Threads : At(t, "run_ui", "record") /\ call[t].pid = pid

\* C15: with calls served on several threads the registry behaves as under
\* one lock: the entry of a runner that is alive leaves the registry only
\* when a locust.stop that signalled the runner removes it.  So no entry of a
\* live job that nobody stopped is lost, and a locust.ps that probed a
\* process id dead does not remove the entry a later launch recorded under
\* that process id.
C15_RegistryAsUnderOneLock ==
  [][\A pid \in DOMAIN registry \ DOMAIN registry' :
       OwnEntry(pid) =>
         \E t \in Threads : At(t, "stop", "pop") /\ call[t].pid = pid]_vars

\* C16, as claimed: when har.to_locust is given a destination and the
\* generator succeeds, the text read back from the path returned is the code
\* returned, and the code returned is the generator's standard output as the
\* generator wrote it; when the generator exits non-zero nothing is written.
C16_RoundTripVerbatim ==
  [][(call'.op = "har_to_locust" /\ call'.write_to # NoPath) =>
       /\ ret'.ok =>
            /\ ReadText(text', ret'.value.path) = ret'.value.code
            /\ ret'.value.code = call'.gen.stdout
       /\ call'.gen.exit # 0 => fs' = fs /\ text' = text]_vars

\* C16, amended: the text read back from the path returned is the code
\* returned, and the code returned is the generator's standard output with
\* its line endings translated (every "\r\n" and every other "\r" is "\n"),
\* and otherwise unchanged; when the generator exits non-zero, or the call
\* fails for another reason, nothing is written.
C16_RoundTrip ==
  [][(call'.op = "har_to_locust" /\ call'.write_to # NoPath) =>
       /\ ret'.ok =>
            /\ call'.gen.exit = 0
            /\ ReadText(text', ret'.value.path) = ret'.value.code
            /\ ret'.value.code = Universal(call'.gen.stdout)
            /\ \A i \in DOMAIN ret'.value.code : ret'.value.code[i] # CR
       /\ ~ret'.ok => fs' = fs /\ text' = text]_vars

C16_Witness ==
  /\ call.op = "har_to_locust"
  /\ call.write_to # NoPath
  /\ call.gen.stdout = GenCrLf
  /\ ret.ok
  /\ ret.value.code = GenLf
  /\ ReadText(text, ret.value.path) = GenLf

\* the task names a script declares, and the labels its tag literals hold
DeclaredTasks(ls) ==
  { ls[i].name : i \in {j \in DOMAIN ls : ls[j].kind = "task"} }

DeclaredTags(ls) ==
  { SelectSeq(lit.s, LAMBDA c : c # " ") :
      lit \in UNION { Range(ls[i].literals) :
                        i \in {j \in DOMAIN ls : ls[j].kind = "tag"} } } \ {<<>>}

\* a sequence of str in ascending order, without a repetition
Ascending(seq) ==
  \A i, j \in DOMAIN seq : i < j => StrLess(seq[i], seq[j])

\* C17: _parse_tasks_and_tags returns, for every script, the names of the
\* tasks the script declares and the labels of its tag literals, each one
\* once and in ascending order.  So a script with three tasks and two
\* labels, one of them repeated, gives three names and two labels, a script
\* without any gives two empty lists, and a tag literal that holds nothing
\* but white space gives no label.
C17_ParseSortedSets ==
  call.op = "parse" =>
    /\ Range(ret.tasks) = DeclaredTasks(call.lines)
    /\ Range(ret.tags) = DeclaredTags(call.lines)
    /\ Ascending(ret.tasks)
    /\ Ascending(ret.tags)

C17_Witness ==
  /\ call.op = "parse"
  /\ Len(call.lines) = MaxLines
  /\ Len(ret.tasks) = 3
  /\ ret.tags = << <<"a">>, <<"b">> >>
  /\ \E i \in DOMAIN call.lines :
       /\ call.lines[i].kind = "tag"
       /\ Len(call.lines[i].literals) = 3

\* C18: locust.stop sends SIGINT first; it sends SIGTERM after it exactly when
\* the SIGINT call raised, so never both when SIGINT went through; and it
\* returns stopped = TRUE exactly when one of the calls it made went through.
C18_SignalOrder ==
  \A t \in Threads :
    call[t].op = "stop" =>
      LET sent == call[t].signals
      IN /\ Len(sent) \in {1, 2}
         /\ sent[1].sig = "SIGINT"
         /\ Len(sent) = 2 => sent[2].sig = "SIGTERM" /\ ~sent[1].ok
         /\ call[t].pc = "done" =>
              /\ ~sent[1].ok => Len(sent) = 2
              /\ ret[t].stopped <=> \E i \in DOMAIN sent : sent[i].ok

C18_Witness ==
  \E t \in Threads :
    /\ At(t, "stop", "done")
    /\ call[t].signals = <<Signal("SIGINT", FALSE), Signal("SIGTERM", TRUE)>>
    /\ ret[t].stopped

\* C19: in every result of locust.find the best path and the list agree:
\* the best path is empty exactly when the list is, and a best path that is
\* not empty is one of the paths of the list.
C19_BestIsListed ==
  call.op = "find" =>
    /\ ret.file = EmptyStr <=> ret.all = <<>>
    /\ ret.file # EmptyStr => \E i \in DOMAIN ret.all : ret.all[i] = ret.file

\* the process id of the runner a call has launched
Launched(c, r) ==
  IF c.op = "run_ui" THEN r.value.pid ELSE r.value.run.pid

\* C20: an entry comes into the registry, or is replaced, only by a
\* locust.run_ui that succeeded (called as a tool or by workflow.har_to_ui),
\* and under the process id of the runner it spawned; an entry leaves the
\* registry only by a locust.stop of its own process id that returned
\* stopped = TRUE, or by a locust.ps that probed its process dead; every
\* other entry is as it was.  locust.find, locust.list_tasks, har.to_locust
\* and locust.run_headless leave the registry unchanged.  So every key of
\* the registry is the process id of a runner that was launched and since
\* then neither stopped nor found dead.
C20_RegistryFrame ==
  [][/\ \A pid \in DOMAIN registry' :
          (pid \notin DOMAIN registry \/ registry'[pid] # registry[pid]) =>
            /\ call'.op \in {"run_ui", "workflow"}
            /\ ret'.ok
            /\ Launched(call', ret') = pid
            /\ procs[pid] = NoProc
            /\ procs'[pid].kind = "runner"
     /\ \A pid \in DOMAIN registry \ DOMAIN registry' :
          \/ call'.op = "stop" /\ call'.pid = pid /\ ret'.stopped
          \/ call'.op = "ps" /\ procs[pid] = NoProc
     /\ call'.op \in {"find", "list_tasks", "har_to_locust", "run_headless"} =>
          registry' = registry]_vars

C20_Witness ==
  /\ call.op = "stop"
  /\ ret.stopped
  /\ call.pid \notin DOMAIN registry
  /\ \E pid \in DOMAIN registry : procs[pid] = NoProc

====
